---------------------------- MODULE Spec2Model ----------------------------
(***************************************************************************)
(* The concatenative VM of MatAtBread/gnat (the variant with runitl(start), *)
(* src/unnamed/part_000): Data Stack vm.s, Return Stack vm.r, Code Space    *)
(* vm.x, instruction pointer vm.i, the compiling flag vm.compiling, the     *)
(* dictionary of getters on ConcatenativeFunction.prototype, and the        *)
(* indirect-threaded loop of runitl.                                        *)
(***************************************************************************)
EXTENDS Integers, Sequences, FiniteSets, TLC

(***************************************************************************)
(* Bounds of the model (not program constants).                            *)
(***************************************************************************)
MaxStack == 4
MaxCode == 14
MaxRet == 3
MaxNum == 16
MaxFree == 1

\* JS undefined where a number is expected (vm.i, an entry of vm.r).
undefined == -1

(***************************************************************************)
(* JS values.  Every value is a record of the same shape, so that values of *)
(* different JS types can be compared.  t is the JS type: "num", "str",     *)
(* "undef", "nan" (the number NaN), "arr" (an array, elements in a) and     *)
(* "fn" (a function object: f is which function, s the word or name it      *)
(* closes over, n its start address, a the value it closes over).  Arrays   *)
(* are values here: two references to one array are not modelled.           *)
(***************************************************************************)
Val(t, n, str, a, f) == [t |-> t, n |-> n, s |-> str, a |-> a, f |-> f]
Num(n) == Val("num", n, "", <<>>, "")
Str(str) == Val("str", 0, str, <<>>, "")
Undef == Val("undef", 0, "", <<>>, "")
NaN == Val("nan", 0, "", <<>>, "")
Null == Val("null", 0, "", <<>>, "")
Bool(b) == Val("bool", IF b THEN 1 ELSE 0, "", <<>>, "")
Arr(a) == Val("arr", 0, "", a, "")
\* the library function object lib[k] itself (nativelib.swap, purelib.exit, ...)
LibFn(k) == Val("fn", 0, k, <<>>, "lib")
\* function(){ return cfa } of staticDefine, for a non-function cfa
ConstFn(cfa) == Val("fn", 0, "", <<cfa>>, "const")
\* the closure runNative of the staticDefine call that registered word k
RunNativeFn(k) == Val("fn", 0, k, <<>>, "runNative")
\* function _defineCFA(){ runitl(start) } made by purelib.define for word name
DefineCFA(name, start) == Val("fn", start, name, <<>>, "_defineCFA")
\* function _does_setcfa made by purelib.does; start is set after the push
DoesSetCfa(start) == Val("fn", start, "", <<>>, "_does_setcfa")
\* function runDoes made by _does_setcfa, closing over link and start
RunDoes(link, start) == Val("fn", start, "", <<link>>, "runDoes")

IsFn(v) == v.t = "fn"

Min(a, b) == IF a < b THEN a ELSE b
Max(a, b) == IF a > b THEN a ELSE b

\* Array.prototype.reverse
Reverse(q) == [k \in 1..Len(q) |-> q[Len(q) + 1 - k]]

(***************************************************************************)
(* Array.prototype.splice(start, deleteCount) on a 0-based array: a         *)
(* negative start counts from the end and is clamped at 0, deleteCount is   *)
(* clamped to what is there.  Gives the removed elements and what is left.  *)
(***************************************************************************)
Splice(q, start, deleteCount) ==
    LET len == Len(q)
        from == IF start < 0 THEN Max(len + start, 0) ELSE Min(start, len)
        dc == Min(Max(deleteCount, 0), len - from)
    IN  [removed |-> SubSeq(q, from + 1, from + dc),
         rest |-> SubSeq(q, 1, from) \o SubSeq(q, from + dc + 1, len)]

(***************************************************************************)
(* JS conversions used by the library words.                               *)
(***************************************************************************)
Digit(d) == CASE d = 0 -> "0" [] d = 1 -> "1" [] d = 2 -> "2" [] d = 3 -> "3"
              [] d = 4 -> "4" [] d = 5 -> "5" [] d = 6 -> "6" [] d = 7 -> "7"
              [] d = 8 -> "8" [] OTHER -> "9"

RECURSIVE NatStr(_)
NatStr(n) == IF n < 10 THEN Digit(n) ELSE NatStr(n \div 10) \o Digit(n % 10)

\* Number.prototype.toString for an integer
NumStr(n) == IF n < 0 THEN "-" \o NatStr(0 - n) ELSE NatStr(n)

\* String(v).  A function's text is its source; it is kept opaque.
RECURSIVE ToStr(_)
RECURSIVE Join(_)
Join(a) == IF a = <<>> THEN ""
           ELSE (IF Head(a).t = "undef" THEN "" ELSE ToStr(Head(a)))
                \o (IF Len(a) > 1 THEN "," \o Join(Tail(a)) ELSE "")
ToStr(v) == CASE v.t = "num" -> NumStr(v.n)
              [] v.t = "str" -> v.s
              [] v.t = "undef" -> "undefined"
              [] v.t = "nan" -> "NaN"
              [] v.t = "null" -> "null"
              [] v.t = "bool" -> IF v.n = 1 THEN "true" ELSE "false"
              [] v.t = "arr" -> Join(v.a)
              [] OTHER -> "function"

\* Number(str) for the strings of the model: blank strings are 0, a string
\* of one digit is that digit, every other string (a word name) is NaN.
StrToNumber(str) ==
    IF str = "" \/ str = " " THEN Num(0)
    ELSE IF \E d \in 0..9 : str = Digit(d)
         THEN Num(CHOOSE d \in 0..9 : str = Digit(d))
         ELSE NaN

\* Number(v): a "num" value or NaN
ToNumber(v) == CASE v.t = "num" -> v
                 [] v.t \in {"null", "bool"} -> Num(v.n)
                 [] v.t = "str" -> StrToNumber(v.s)
                 [] v.t = "arr" -> StrToNumber(Join(v.a))
                 [] OTHER -> NaN

\* a - b
JsSub(a, b) == LET p == ToNumber(a)
                   q == ToNumber(b)
               IN  IF p.t = "nan" \/ q.t = "nan" THEN NaN ELSE Num(p.n - q.n)

\* a + b: concatenation when either operand is (or converts to) a string
JsAdd(a, b) ==
    IF a.t \in {"str", "arr", "fn"} \/ b.t \in {"str", "arr", "fn"}
    THEN Str(ToStr(a) \o ToStr(b))
    ELSE LET p == ToNumber(a)
             q == ToNumber(b)
         IN  IF p.t = "nan" \/ q.t = "nan" THEN NaN ELSE Num(p.n + q.n)

\* The number of declared parameters of a function (Function.length)
FnLength(fn) ==
    IF fn.f = "lib"
    THEN CASE fn.s \in {"swap", "add", "sub"} -> 2
           [] fn.s \in {"store", "load", "spread", "gather", "pluck", "pick",
                        "drop", "print"} -> 1
           [] OTHER -> 0
    ELSE 0

\* the j-th argument of a call that was passed args
Arg(args, j) == IF j <= Len(args) THEN args[j] ELSE Undef

\* a[k] for a 0-based JS array a (undefined outside it)
At(a, k) == IF k >= 0 /\ k < Len(a) THEN a[k + 1] ELSE Undef

(***************************************************************************)
(* The machine.  A machine state m is a record:                            *)
(*   vm          the object vm: s (Data Stack, top last), r (Return Stack), *)
(*               x (Code Space, x[k+1] is the JS cell vm.x[k]), i, the      *)
(*               compiling flag, and cfa: the word whose closure variable   *)
(*               fn the accessor vm.cfa reads and writes                    *)
(*   prototype   the getters on ConcatenativeFunction.prototype: for each   *)
(*               word, the closure's fn and whether its context is vm       *)
(*   isImmediate the function objects whose .immediate is true              *)
(*   loops       the number of while loops of runitl active on the host     *)
(*               call stack                                                 *)
(*   thrown      the exception the current top-level call threw ("" none)   *)
(*   stdout      what print wrote                                           *)
(***************************************************************************)
Push(m, v) == [m EXCEPT !.vm.s = Append(@, v)]
Throw(m, e) == [m EXCEPT !.thrown = e]
Ret(m, v) == [m |-> m, ret |-> v]

\* vm.x[a]: a property read of the array vm.x
load(x, a) == CASE a.t = "num" -> At(x, a.n)
                [] a.t = "str" /\ a.s = "length" -> Num(Len(x))
                [] a.t = "str" -> LET k == StrToNumber(a.s)
                                  IN IF k.t = "num" /\ a.s \notin {"", " "}
                                     THEN At(x, k.n) ELSE Undef
                [] OTHER -> Undef

\* swap pushing its arguments in the order it was given them
swap_PushesInOrder(m, a, b) == [m EXCEPT !.vm.s = @ \o <<a, b>>]

\* vm.s.push(b,a)
swap(m, a, b) == [m EXCEPT !.vm.s = @ \o <<b, a>>]

\* spread pushing the elements last first
spread_PushesReversed(m, arr) ==
    CASE arr.t = "arr" -> [m EXCEPT !.vm.s = @ \o Reverse(arr.a)]
      [] arr.t = "undef" -> m
      [] arr.t = "fn" -> [m EXCEPT !.vm.s = @ \o [k \in 1..FnLength(arr) |-> Undef]]
      [] OTHER -> Throw(m, "TypeError")

\* vm.s.push.apply(vm.s, arr)
spread(m, arr) ==
    CASE arr.t = "arr" -> [m EXCEPT !.vm.s = @ \o arr.a]
      [] arr.t = "undef" -> m
      [] arr.t = "fn" -> [m EXCEPT !.vm.s = @ \o [k \in 1..FnLength(arr) |-> Undef]]
      [] OTHER -> Throw(m, "TypeError")

\* vm.s.push(vm.s.splice(vm.s.length-idx,idx))
gather(m, idx) ==
    LET n == ToNumber(idx)
        sp == IF n.t = "nan" THEN Splice(m.vm.s, 0, 0)
              ELSE Splice(m.vm.s, Len(m.vm.s) - n.n, n.n)
    IN  [m EXCEPT !.vm.s = Append(sp.rest, Arr(sp.removed))]

\* pluck counting the index from 1 at the top
pluck_CountsFromOne(m, idx) ==
    LET n == ToNumber(idx)
        sp == Splice(m.vm.s, IF n.t = "nan" THEN 0 ELSE Len(m.vm.s) - n.n, 1)
    IN  Ret([m EXCEPT !.vm.s = sp.rest], At(sp.removed, 0))

\* return vm.s.splice(vm.s.length-idx-1,1)[0]
pluck(m, idx) ==
    LET n == ToNumber(idx)
        sp == Splice(m.vm.s, IF n.t = "nan" THEN 0 ELSE Len(m.vm.s) - n.n - 1, 1)
    IN  Ret([m EXCEPT !.vm.s = sp.rest], At(sp.removed, 0))

\* return vm.s[vm.s.length-idx-1]
pick(m, idx) ==
    LET n == ToNumber(idx)
    IN  IF n.t = "nan" THEN Undef ELSE At(m.vm.s, Len(m.vm.s) - n.n - 1)

\* process.stdout.write(a.toString())
print(m, a) == IF a.t = "undef" THEN Throw(m, "TypeError")
               ELSE [m EXCEPT !.stdout = Append(@, ToStr(a))]

\* The words of nativelib, called with args; gives the machine and the
\* value returned.  calljs, mul and div are left out: no word of the
\* programs below uses them.
nativelib(m, k, args) ==
    LET a == Arg(args, 1)
        b == Arg(args, 2)
    IN  CASE k = "store" -> Ret([m EXCEPT !.vm.x = Append(@, a)], Undef)
          [] k = "load" -> Ret(m, load(m.vm.x, a))
          [] k = "swap" -> Ret(swap(m, a, b), Undef)
          [] k = "spread" -> Ret(spread(m, a), Undef)
          [] k = "gather" -> Ret(gather(m, a), Undef)
          [] k = "pluck" -> pluck(m, a)
          [] k = "pick" -> Ret(m, pick(m, a))
          [] k = "add" -> Ret(m, JsAdd(a, b))
          [] k = "sub" -> Ret(m, JsSub(a, b))
          [] k = "print" -> Ret(print(m, a), Undef)
          [] OTHER -> Ret(m, Undef)   \* drop(a) {}

(***************************************************************************)
(* ConcatenativeFunction.define: k must be a string; a non-function cfa is  *)
(* wrapped in a constant function.  Object.defineProperty on the prototype  *)
(* is given no "configurable", so the property is not configurable and a    *)
(* second defineProperty for the same k throws a TypeError.  vm.cfa is      *)
(* configurable and is re-bound to the new word's fn.                       *)
(***************************************************************************)
staticDefine(m, k, cfa, pure) ==
    IF k.t # "str" THEN Throw(m, "TypeError")
    ELSE IF k.s \in DOMAIN m.prototype THEN Throw(m, "TypeError")
    ELSE [m EXCEPT !.prototype = @ @@ (k.s :> [fn |-> IF IsFn(cfa) THEN cfa
                                                     ELSE ConstFn(cfa),
                                               pure |-> pure]),
                   !.vm.cfa = k.s]

\* vm.cfa = cfa: the setter assigns the closure variable fn of the word
\* defined last
setCfa(m, fn) == [m EXCEPT !.prototype[m.vm.cfa].fn = fn]

\* runitl saving the start address in place of the instruction pointer
runitl_SavesStart(m, start) ==
    LET r1 == Append(m.vm.r, start)
    IN  [m EXCEPT !.vm.r = r1,
                  !.vm.i = start,
                  !.loops = IF Len(r1) = 1 THEN @ + 1 ELSE @]

\* runitl initiating a loop on every call
runitl_AlwaysLoops(m, start) ==
    LET r1 == Append(m.vm.r, m.vm.i)
    IN  [m EXCEPT !.vm.r = r1,
                  !.vm.i = start,
                  !.loops = @ + 1]

\* Run an indirect-threaded loop, saving the instruction pointer and
\* initiating the loop if necessary
runitl(m, start) ==
    LET r1 == Append(m.vm.r, m.vm.i)
    IN  [m EXCEPT !.vm.r = r1,
                  !.vm.i = start,
                  !.loops = IF Len(r1) = 1 THEN @ + 1 ELSE @]

\* exit reading the return address and leaving it on the Return Stack
exit_KeepsEntry(m) ==
    IF m.vm.r = <<>> THEN [m EXCEPT !.vm.i = undefined]
    ELSE [m EXCEPT !.vm.i = m.vm.r[Len(m.vm.r)]]

\* purelib.exit: vm.i = vm.r.pop()
exit(m) ==
    IF m.vm.r = <<>> THEN [m EXCEPT !.vm.i = undefined]
    ELSE [m EXCEPT !.vm.i = m.vm.r[Len(m.vm.r)],
                   !.vm.r = SubSeq(@, 1, Len(@) - 1)]

\* purelib.create: the name is popped, then the word is registered with
\* the Code Space length as its constant
create(m) ==
    LET name == IF m.vm.s = <<>> THEN Undef ELSE m.vm.s[Len(m.vm.s)]
        m1 == [m EXCEPT !.vm.s = SubSeq(@, 1, Len(@) - 1)]
    IN  staticDefine(m1, name, Num(Len(m.vm.x)), TRUE)

\* define taking the address after the next cell as the start address
define_StartsLate(m) ==
    LET name == IF m.vm.s = <<>> THEN Undef ELSE m.vm.s[Len(m.vm.s)]
        m1 == create(m)
        start == m1.prototype[m1.vm.cfa].fn.a[1].n + 1
        fn == DefineCFA(name.s, start)
    IN  IF m1.thrown # "" THEN m1
        ELSE setCfa([m1 EXCEPT !.vm.compiling = fn], fn)

\* purelib.define: .create, then vm.cfa = vm.compiling = _defineCFA
define(m) ==
    LET name == IF m.vm.s = <<>> THEN Undef ELSE m.vm.s[Len(m.vm.s)]
        m1 == create(m)
        start == m1.prototype[m1.vm.cfa].fn.a[1].n     \* vm.cfa()
        fn == DefineCFA(name.s, start)
    IN  IF m1.thrown # "" THEN m1
        ELSE setCfa([m1 EXCEPT !.vm.compiling = fn], fn)

\* purelib.does (immediate): start is the Code Space length after the push
does(m) ==
    LET fn == DoesSetCfa(Len(m.vm.x) + 2)
    IN  [m EXCEPT !.vm.compiling = fn,
                  !.vm.x = @ \o <<fn, LibFn("exit")>>]

\* return appending the exit cell and leaving the compiling flag as it is
return_LeavesFlag(m) == [m EXCEPT !.vm.x = Append(@, LibFn("exit"))]

\* purelib.return (immediate)
return(m) == [m EXCEPT !.vm.x = Append(@, LibFn("exit")),
                       !.vm.compiling = Undef]

\* purelib.immediate (immediate): immediate(vm.compiling) sets a property
\* of vm.compiling, which throws when vm.compiling is undefined
immediate(m) ==
    IF m.vm.compiling.t = "undef" THEN Throw(m, "TypeError")
    ELSE [m EXCEPT !.isImmediate = @ \cup {m.vm.compiling}]

\* The words of purelib: no parameters, and only here returns a value
purelib(m, k) ==
    CASE k = "create" -> Ret(create(m), Undef)
      [] k = "define" -> Ret(define(m), Undef)
      [] k = "does" -> Ret(does(m), Undef)
      [] k = "exit" -> Ret(exit(m), Undef)
      [] k = "return" -> Ret(return(m), Undef)
      [] k = "immediate" -> Ret(immediate(m), Undef)
      [] k = "here" -> Ret(m, Num(Len(m.vm.x)))
      [] OTHER -> Ret(m, Undef)     \* debugger: prints, changes nothing

PureNames == {"create", "define", "does", "exit", "return", "immediate",
              "here", "debugger"}
NativeNames == {"store", "load", "swap", "spread", "gather", "pluck", "pick",
                "drop", "add", "sub", "print"}

\* runDoes: push the link unless it is undefined, then runitl(start)
runDoes(m, fn) ==
    LET link == fn.a[1]
    IN  runitl(IF link.t # "undef" THEN Push(m, link) ELSE m, fn.n)

(***************************************************************************)
(* fn.apply(context, args) for the functions a word's closure variable fn   *)
(* can hold: a library function, a constant function, _defineCFA, runDoes.  *)
(***************************************************************************)
apply(m, fn, args) ==
    CASE fn.f = "lib" /\ fn.s \in PureNames -> purelib(m, fn.s)
      [] fn.f = "lib" -> nativelib(m, fn.s, args)
      [] fn.f = "const" -> Ret(m, fn.a[1])
      [] fn.f = "_defineCFA" -> Ret(runitl(m, fn.n), Undef)
      [] OTHER -> Ret(runDoes(m, fn), Undef)

\* runNative passing the spliced values shallowest first
runNative_ArgsReversed(m, k) ==
    LET fn == m.prototype[k].fn
        sp == Splice(m.vm.s, Len(m.vm.s) - FnLength(fn), FnLength(fn))
        res == apply([m EXCEPT !.vm.s = sp.rest], fn, Reverse(sp.removed))
    IN  IF res.m.thrown # "" THEN res.m
        ELSE IF res.ret.t # "undef" THEN Push(res.m, res.ret)
        ELSE res.m

(***************************************************************************)
(* runNative of word k: the top fn.length values are spliced off the Data   *)
(* Stack and passed to fn; a result other than undefined is pushed.  (The   *)
(* test r!==vm never fails here: no function of the model returns vm.)      *)
(***************************************************************************)
runNative(m, k) ==
    LET fn == m.prototype[k].fn
        sp == Splice(m.vm.s, Len(m.vm.s) - FnLength(fn), FnLength(fn))
        res == apply([m EXCEPT !.vm.s = sp.rest], fn, sp.removed)
    IN  IF res.m.thrown # "" THEN res.m
        ELSE IF res.ret.t # "undef" THEN Push(res.m, res.ret)
        ELSE res.m

\* _does_setcfa: link = vm.cfa() calls the fn of the word defined last,
\* then vm.cfa = runDoes replaces that fn
does_setcfa(m, fn) ==
    LET res == apply(m, m.prototype[m.vm.cfa].fn, <<>>)
    IN  IF res.m.thrown # "" THEN res.m
        ELSE setCfa(res.m, RunDoes(res.ret, fn.n))

\* r = r() for a function cell r
callCell(m, cell) ==
    CASE cell.f = "runNative" -> runNative(m, cell.s)
      [] cell.f = "_does_setcfa" -> does_setcfa(m, cell)
      [] OTHER -> apply(m, cell, <<>>).m

(***************************************************************************)
(* [].push.apply(vm.s,[].reverse.call(r)) for the cell r = vm.x[k] that is  *)
(* not a function.  Array.prototype.reverse reverses r in place, and r is   *)
(* the array stored in Code Space.  On undefined, and on a string of two or *)
(* more characters, reverse throws; a number has no elements.               *)
(***************************************************************************)
pushCell(m, k, cell) ==
    CASE cell.t = "arr" -> [m EXCEPT !.vm.x[k + 1] = Arr(Reverse(cell.a)),
                                     !.vm.s = @ \o Reverse(cell.a)]
      [] cell.t = "undef" -> Throw(m, "TypeError")
      [] cell.t = "str" /\ Len(cell.s) >= 2 -> Throw(m, "TypeError")
      [] cell.t = "str" /\ Len(cell.s) = 1 -> Push(m, cell)
      [] OTHER -> m

\* A call from top level has returned or thrown: an exception unwinds every
\* loop on the call stack
unwind(m) == IF m.thrown # "" THEN [m EXCEPT !.loops = 0] ELSE m

(***************************************************************************)
(* One pass of the body of the while loop of runitl, and the loop test      *)
(* that follows it: every active loop ends when vm.i is undefined.          *)
(***************************************************************************)
loopBody(m) ==
    LET k == m.vm.i
        cell == At(m.vm.x, k)
        m1 == [m EXCEPT !.vm.i = k + 1]
        m2 == IF IsFn(cell) THEN callCell(m1, cell) ELSE pushCell(m1, k, cell)
    IN  IF m2.thrown # "" \/ m2.vm.i = undefined
        THEN [m2 EXCEPT !.loops = 0]
        ELSE m2

\* The getter of word k on the prototype
getter(m, k) ==
    LET e == m.prototype[k]
    IN  IF m.vm.compiling.t # "undef" /\ e.fn \notin m.isImmediate
        THEN [m EXCEPT !.vm.x = Append(@, IF ~e.pure THEN RunNativeFn(k)
                                          ELSE e.fn)]
        ELSE unwind(runNative(m, k))

\* _c pushing the arguments whether the machine is compiling or not
c_AlwaysPushes(m, args) ==
    IF m.vm.compiling.t # "undef"
    THEN [m EXCEPT !.vm.x = Append(@, Arr(args)),
                   !.vm.s = @ \o Reverse(args)]
    ELSE [m EXCEPT !.vm.s = @ \o Reverse(args)]

\* C(...args) with at least one argument
_c(m, args) ==
    IF m.vm.compiling.t # "undef"
    THEN [m EXCEPT !.vm.x = Append(@, Arr(args))]
    ELSE [m EXCEPT !.vm.s = @ \o Reverse(args)]

(***************************************************************************)
(* ConcatenativeFunction.import: every own property of lib with a truthy    *)
(* value is defined; lib is given as the sequence of its properties.        *)
(***************************************************************************)
Truthy(v) == CASE v.t \in {"num", "bool"} -> v.n # 0
               [] v.t = "str" -> v.s # ""
               [] v.t \in {"undef", "nan", "null"} -> FALSE
               [] OTHER -> TRUE

RECURSIVE staticImport(_, _, _)
staticImport(m, lib, pure) ==
    IF lib = <<>> \/ m.thrown # "" THEN m
    ELSE staticImport(IF Truthy(Head(lib).value)
                      THEN staticDefine(m, Str(Head(lib).k), Head(lib).value, pure)
                      ELSE m,
                      Tail(lib), pure)

LibOf(names) == [j \in 1..Len(names) |-> [k |-> names[j], value |-> LibFn(names[j])]]

\* var vm = {s:[],r:[],x:[]}, no word, the three immediate library functions
Empty ==
    [vm |-> [s |-> <<>>, r |-> <<>>, x |-> <<>>, i |-> undefined,
             compiling |-> Undef, cfa |-> ""],
     prototype |-> <<>>,
     isImmediate |-> {LibFn("does"), LibFn("return"), LibFn("immediate")},
     loops |-> 0,
     thrown |-> "",
     stdout |-> <<>>]

\* The machine when the module has been loaded: nativelib, then purelib
Boot ==
    staticImport(
        staticImport(Empty,
                     LibOf(<<"store", "load", "swap", "spread", "gather", "pluck",
                             "pick", "drop", "add", "sub", "print">>), FALSE),
        LibOf(<<"create", "define", "does", "exit", "return", "immediate",
                "here", "debugger">>), TRUE)

(***************************************************************************)
(* The program text fed to C.  A token is a call C(v1, ..., vn) with        *)
(* literals, or a property access .w (the getter of word w).                *)
(***************************************************************************)
Lit(v) == [k |-> "lit", w |-> "", v |-> v]
W(w) == [k |-> "word", w |-> w, v |-> <<>>]
NoToken == [k |-> "", w |-> "", v |-> <<>>]

\* test and mat of d.js, with small values
ProgTest ==
    <<Lit(<<Str("t")>>), W("define"), Lit(<<Num(1), Num(2)>>), W("sub"),
      Lit(<<Num(3)>>), W("swap"), W("print"), W("print"), W("return"),
      Lit(<<Str("m")>>), W("define"), Lit(<<Str("x")>>), W("print"), W("t"),
      Lit(<<Str("k")>>), W("print"), W("return"),
      W("m"), W("t")>>

\* Hi (immediate) and a of d.js
ProgHi ==
    <<Lit(<<Str("h")>>), W("define"), W("immediate"), Lit(<<Str("hi")>>),
      W("print"), W("return"),
      Lit(<<Str("a")>>), W("define"), Lit(<<Num(1)>>), W("h"), W("print"),
      W("return"),
      W("a"), W("a")>>

\* dup, printer, hello and Matthew of d.js
ProgPrinter ==
    <<Lit(<<Str("d")>>), W("define"), Lit(<<Num(0)>>), W("pick"), W("return"),
      Lit(<<Str("p")>>), W("define"), W("d"), W("create"), W("store"),
      W("does"), W("load"), W("print"), W("return"),
      Lit(<<Str("h")>>), W("p"), W("h"), Lit(<<Str("w")>>), W("p"),
      W("h"), W("w")>>

\* var of d.js, then a word compiled with a reference to a variable
ProgVar ==
    <<Lit(<<Str("v")>>), W("define"), W("swap"), W("create"), W("store"),
      W("return"),
      Lit(<<Num(5), Str("a")>>), W("v"), W("a"), W("load"),
      Lit(<<Str("u")>>), W("define"), W("a"), W("load"), W("return"), W("u")>>

\* words used from top level, as in the last lines of d.js
ProgStack ==
    <<Lit(<<Num(1), Num(2)>>), Lit(<<Num(5)>>), W("sub"), W("swap"), W("here"),
      W("drop"), Lit(<<Num(0)>>), W("pick"), W("print"), W("drop"), W("print"),
      W("print")>>

\* a definition of literals and one word, executed twice
ProgDual ==
    <<Lit(<<Str("w")>>), W("define"), Lit(<<Num(1), Num(2)>>), W("sub"),
      W("return"), Lit(<<Num(5)>>), W("w"), W("w")>>

\* a word whose print is given nothing to print, then Hi and a
ProgAbort ==
    <<Lit(<<Str("e")>>), W("define"), W("print"), W("return"), W("e"),
      Lit(<<Str("h")>>), W("define"), W("immediate"), Lit(<<Str("hi")>>),
      W("print"), W("return"),
      Lit(<<Str("a")>>), W("define"), Lit(<<Num(1)>>), W("h"), W("print"),
      W("return"), W("a")>>

\* test is defined, used by mat, and defined again
ProgRedefine ==
    <<Lit(<<Str("t")>>), W("define"), Lit(<<Num(1)>>), W("print"), W("return"),
      Lit(<<Str("m")>>), W("define"), W("t"), W("return"),
      Lit(<<Str("t")>>), W("define"), Lit(<<Num(2)>>), W("print"), W("return"),
      W("m"), W("t")>>

\* printer of d.js, given the same name twice
ProgReuse ==
    <<Lit(<<Str("p")>>), W("define"), Lit(<<Num(0)>>), W("pick"), W("create"),
      W("store"), W("does"), W("load"), W("print"), W("return"),
      Lit(<<Str("h")>>), W("p"), W("h"), Lit(<<Str("h")>>), W("p"), W("h")>>

\* two words created one after the other, then a value stored
ProgCreate ==
    <<Lit(<<Str("a")>>), W("create"), Lit(<<Str("b")>>), W("create"),
      Lit(<<Num(7)>>), W("store"), W("a"), W("load"), W("b"), W("load")>>

\* values gathered into an array and spread again
ProgGather ==
    <<Lit(<<Num(1), Num(2)>>), Lit(<<Num(5)>>), Lit(<<Num(2)>>), W("gather"),
      W("spread"), Lit(<<Num(0)>>), W("gather"), W("spread"),
      Lit(<<Num(3)>>), W("gather"), W("spread"), W("swap"), W("swap")>>

\* values picked and plucked by their depth
ProgPluck ==
    <<Lit(<<Num(1), Num(2)>>), Lit(<<Num(5)>>), Lit(<<Num(1)>>), W("pluck"),
      Lit(<<Num(2)>>), W("pick"), W("drop"), Lit(<<Num(0)>>), W("pluck"),
      Lit(<<Num(2)>>), W("pluck")>>

\* printer of d.js without its create, invoked after a word was created
ProgNoCreate ==
    <<Lit(<<Str("q")>>), W("define"), W("does"), W("load"), W("print"),
      W("return"), Lit(<<Str("a")>>), W("create"), Lit(<<Num(7)>>),
      W("store"), W("a"), W("drop"), W("q"), W("a")>>

Programs == {ProgTest, ProgHi, ProgPrinter, ProgVar, ProgStack, ProgDual,
             ProgAbort, ProgRedefine, ProgReuse, ProgCreate, ProgGather,
             ProgPluck, ProgNoCreate}

\* The mappings given to ConcatenativeFunction.import beside the program
ImportLibs ==
    {<<[k |-> "z", value |-> Num(0)], [k |-> "k", value |-> Str("c")]>>,
     <<[k |-> "n", value |-> Null], [k |-> "g", value |-> LibFn("drop")]>>,
     <<[k |-> "q", value |-> Str("")], [k |-> "y", value |-> Bool(FALSE)]>>}

\* The tokens tried beside the program's own, at one place in it
FreeLits == {<<Num(1)>>, <<Str("a")>>, <<Str("t")>>, <<Str("")>>,
             <<Num(1), Num(2)>>}
FreeWords(m) == DOMAIN m.prototype

VARIABLES vm, prototype, isImmediate, loops, thrown, stdout,
          prog, free, last, pre, trace, x0

vars == <<vm, prototype, isImmediate, loops, thrown, stdout,
          prog, free, last, pre, trace, x0>>

Machine == [vm |-> vm, prototype |-> prototype, isImmediate |-> isImmediate,
            loops |-> loops, thrown |-> thrown, stdout |-> stdout]

\* What the model keeps of a machine: the bounds on its stacks and numbers
NumsOK(q) == \A j \in 1..Len(q) :
                 /\ q[j].t = "num" => q[j].n <= MaxNum /\ q[j].n >= 0 - MaxNum
                 /\ q[j].t = "str" => Len(q[j].s) <= MaxNum
InBounds(m) == /\ Len(m.vm.s) <= MaxStack
               /\ Len(m.vm.x) <= MaxCode
               /\ Len(m.vm.r) <= MaxRet
               /\ NumsOK(m.vm.s)

Becomes(m) == /\ InBounds(m)
              /\ vm' = m.vm
              /\ prototype' = m.prototype
              /\ isImmediate' = m.isImmediate
              /\ loops' = m.loops
              /\ thrown' = m.thrown
              /\ stdout' = m.stdout
              \* x0: every cell of Code Space as it was when it was appended
              /\ x0' = x0 \o SubSeq(m.vm.x, Len(x0) + 1, Len(m.vm.x))

\* The snapshot kept of the machine at a call from top level
Snapshot == [vm |-> vm, prototype |-> prototype, isImmediate |-> isImmediate]

\* the next token is the program's next one, or one tried beside it; the
\* tokens tried beside the program's are tried at one place in it
Takes(t) == \/ /\ prog # <<>>
               /\ t = Head(prog)
               /\ prog' = Tail(prog)
               /\ free' = IF free < MaxFree THEN 0 ELSE free
            \/ /\ free > 0
               /\ \/ t.k = "lit" /\ t.v \in FreeLits
                  \/ t.k = "word" /\ t.w \in FreeWords(Machine)
               /\ free' = free - 1
               /\ prog' = prog

Tokens == (IF prog # <<>> THEN {Head(prog)} ELSE {})
          \cup {Lit(v) : v \in FreeLits}
          \cup {W(w) : w \in FreeWords(Machine)}

\* A call from top level starts with no exception pending
TopLevel == [Machine EXCEPT !.thrown = ""]

Called(t) == /\ last' = t
             /\ pre' = Snapshot
             /\ trace' = <<>>

\* C(v1, ..., vn)
Literal == /\ loops = 0
           /\ \E t \in Tokens :
                 /\ t.k = "lit"
                 /\ Takes(t)
                 /\ Called(t)
                 /\ Becomes(_c(TopLevel, t.v))

\* C.w
Getter == /\ loops = 0
          /\ \E t \in Tokens :
                /\ t.k = "word"
                /\ t.w \in DOMAIN prototype
                /\ Takes(t)
                /\ Called(t)
                /\ Becomes(getter(TopLevel, t.w))

\* ConcatenativeFunction.import(lib, pure), called by the host program
Import == /\ loops = 0
          /\ free > 0
          /\ \E lib \in ImportLibs, pure \in BOOLEAN :
                /\ last' = [k |-> "import", w |-> IF pure THEN "pure" ELSE "",
                            v |-> lib]
                /\ pre' = Snapshot
                /\ trace' = <<>>
                /\ Becomes(staticImport(TopLevel, lib, pure))
          /\ free' = free - 1
          /\ prog' = prog

\* One pass of the while loop of runitl; trace records the cells executed
Loop == /\ loops > 0
        /\ Becomes(loopBody(Machine))
        /\ trace' = Append(trace, vm.i)
        /\ UNCHANGED <<prog, free, last, pre>>

Init == /\ vm = Boot.vm
        /\ prototype = Boot.prototype
        /\ isImmediate = Boot.isImmediate
        /\ loops = 0
        /\ thrown = ""
        /\ stdout = <<>>
        /\ prog \in Programs
        /\ free = MaxFree
        /\ last = NoToken
        /\ pre = Snapshot
        /\ trace = <<>>
        /\ x0 = <<>>

Next == Literal \/ Getter \/ Loop \/ Import

Spec == Init /\ [][Next]_vars

(***************************************************************************)
(* What the properties below read of the last call from top level.         *)
(***************************************************************************)
\* the machine as it was when the last call from top level was made
PreM == [vm |-> pre.vm, prototype |-> pre.prototype,
         isImmediate |-> pre.isImmediate, loops |-> 0, thrown |-> "",
         stdout |-> <<>>]

\* the last call from top level was a getter that ran its word (runNative):
\* the machine was not compiling, or the word is immediate
Ran == /\ last.k = "word"
       /\ \/ pre.vm.compiling.t = "undef"
          \/ pre.prototype[last.w].fn \in pre.isImmediate

\* the fn of the word of the last call, when the call was made
PreFn == pre.prototype[last.w].fn

\* the last call from top level has returned, or has thrown
Returned == loops = 0

\* library callables that do not change vm.s themselves
NoStackWrite == {"store", "load", "drop", "add", "sub", "print", "pick", "here",
                 "does", "return", "immediate", "exit", "debugger"}

C2_Underflow ==
    (Ran /\ PreFn.f = "lib" /\ Len(pre.vm.s) < FnLength(PreFn))
    => /\ thrown = "StackUnderflow"
       /\ vm.s = pre.vm.s
       /\ vm.x = pre.vm.x

(***************************************************************************)
(* C4: executing a literal-push cell pushes the values it was compiled      *)
(* with and leaves the cell's stored list unchanged: every literal cell of  *)
(* Code Space holds the list it was compiled with.                          *)
(***************************************************************************)
C4_LiteralCellUnchanged ==
    \A j \in 1..Len(vm.x) : x0[j].t = "arr" => vm.x[j] = x0[j]

(***************************************************************************)
(* C3: compile/interpret duality.  A colon definition compiled from         *)
(* literal tokens followed by a reference to a non-immediate library word   *)
(* that only works on the Data Stack, when executed from top level, leaves  *)
(* the Data Stack that feeding the same tokens in interpret mode leaves     *)
(* from the same starting stack.                                            *)
(***************************************************************************)
StackWords == {"swap", "sub", "add", "drop", "pick", "pluck"}

\* the number of literal cells compiled from address st on
LitRun(st) ==
    CHOOSE n \in 0..Len(x0) :
        /\ \A j \in 1..n : st + j <= Len(x0) /\ x0[st + j].t = "arr"
        /\ st + n + 1 > Len(x0) \/ x0[st + n + 1].t # "arr"

\* the body compiled at st is literal cells, a call of a StackWord, an exit
DualBody(st) ==
    LET n == LitRun(st)
    IN  /\ st + n + 2 <= Len(x0)
        /\ x0[st + n + 1].f = "runNative"
        /\ x0[st + n + 1].s \in StackWords
        /\ x0[st + n + 2] = LibFn("exit")

\* feeding literal tokens C(...) for the cells, in interpret mode
RECURSIVE FeedLits(_, _)
FeedLits(m, cells) ==
    IF cells = <<>> THEN m ELSE FeedLits(_c(m, Head(cells).a), Tail(cells))

\* the same tokens fed in interpret mode to the machine of the call
Interpreted(st) ==
    LET n == LitRun(st)
    IN  runNative(FeedLits(PreM, SubSeq(x0, st + 1, st + n)), x0[st + n + 1].s)

\* C3: the compiled word leaves the Data Stack that interpreting its tokens leaves
C3_Duality ==
    (/\ Returned /\ Ran /\ thrown = ""
     /\ pre.vm.compiling.t = "undef"
     /\ PreFn.f = "_defineCFA"
     /\ DualBody(PreFn.n))
    => vm.s = Interpreted(PreFn.n).vm.s

(***************************************************************************)
(* What the last call from top level was.                                   *)
(***************************************************************************)
\* a colon-defined word invoked in interpret mode
ColonCall == /\ Ran
             /\ pre.vm.compiling.t = "undef"
             /\ PreFn.f = "_defineCFA"

\* an immediate colon-defined word referenced while a body is compiled
ImmediateCall == /\ last.k = "word"
                 /\ pre.vm.compiling.t # "undef"
                 /\ PreFn.f = "_defineCFA"
                 /\ PreFn \in pre.isImmediate
                 /\ pre.vm.compiling # PreFn

\* the cell executed last by the interpreter loop since the call
LastCell == At(vm.x, trace[Len(trace)])

(***************************************************************************)
(* C9: a top-level invocation of a colon-defined word in interpret mode     *)
(* runs the word's body, from its start address to its exit, before control *)
(* returns to top level, whatever happened before it: when the invocation   *)
(* has returned without an exception, cells have been executed, the first   *)
(* at the word's start address and the last an exit that left the           *)
(* instruction pointer undefined.                                           *)
(***************************************************************************)
C9_RunsToExit ==
    (Returned /\ ColonCall /\ thrown = "")
    => /\ trace # <<>>
       /\ trace[1] = PreFn.n
       /\ LastCell = LibFn("exit")
       /\ vm.i = undefined

(***************************************************************************)
(* C7: Return Stack balance.  When a top-level invocation of a word has     *)
(* returned without an exception, the Return Stack is as deep as it was     *)
(* before the invocation and the instruction pointer is undefined.          *)
(***************************************************************************)
C7_ReturnStackBalance ==
    (Returned /\ Ran /\ thrown = "")
    => /\ Len(vm.r) = Len(pre.vm.r)
       /\ vm.i = undefined

(***************************************************************************)
(* C5: immediate-word scoping.  When an immediate colon-defined word is     *)
(* referenced while a body is being compiled and the reference returns      *)
(* without an exception, the immediate word's body has been executed once   *)
(* (from its start address), and no cell appended to Code Space by the      *)
(* reference calls the immediate word; and a later top-level invocation of  *)
(* a compiled, non-immediate colon word never executes the start of an      *)
(* immediate word's body.                                                   *)
(***************************************************************************)
Occurrences(q, a) == Cardinality({j \in 1..Len(q) : q[j] = a})

ImmediateStarts == {prototype[k].fn.n : k \in {w \in DOMAIN prototype :
                        /\ prototype[w].fn.f = "_defineCFA"
                        /\ prototype[w].fn \in isImmediate}}

\* C5: the immediate word runs once at the reference and is compiled nowhere
C5_ImmediateScoping ==
    /\ (Returned /\ ImmediateCall /\ thrown = "")
       => /\ Occurrences(trace, PreFn.n) = 1
          /\ trace[1] = PreFn.n
          /\ \A j \in Len(pre.vm.x) + 1..Len(vm.x) :
                vm.x[j] \notin {PreFn, RunNativeFn(last.w)}
    /\ (ColonCall /\ PreFn \notin pre.isImmediate)
       => \A j \in 1..Len(trace) : trace[j] \notin ImmediateStarts

(***************************************************************************)
(* C6: CREATE/DOES> independence.  Invoking a created word from top level   *)
(* in interpret mode pushes that word's own data cell (the address it was   *)
(* created with) and starts the interpreter loop at the shared behaviour;   *)
(* and a call in which a later word is created changes no earlier created   *)
(* word's data cell or behaviour.                                           *)
(***************************************************************************)
DoesWords(p) == {k \in DOMAIN p : p[k].fn.f = "runDoes"}

\* C6: a created word pushes its own data cell and runs the shared behaviour
C6_CreateDoesIndependence ==
    /\ (/\ Ran /\ pre.vm.compiling.t = "undef" /\ PreFn.f = "runDoes"
        /\ PreFn.a[1].t # "undef"
        /\ trace = <<>> /\ thrown = "")
       => /\ vm.s = Append(pre.vm.s, PreFn.a[1])
          /\ vm.i = PreFn.n
          /\ loops > 0
    /\ (last.k = "word" /\ DOMAIN prototype # DOMAIN pre.prototype)
       => \A k \in DoesWords(pre.prototype) :
             prototype[k].fn = pre.prototype[k].fn

(***************************************************************************)
(* C8: nested call and return.  The cells executed since the last call from *)
(* top level are followed through with the return addresses they imply: a   *)
(* call cell at address k (of a colon-defined or does-bound word) is        *)
(* followed by the cell at the callee's start address, the callee's exit    *)
(* by the cell at k + 1, and any other cell by the next one.  So, when a    *)
(* colon-defined word invoked from top level has returned without an        *)
(* exception, the cells of its own body were executed once each, in order,  *)
(* from its start address to its exit.  (A _does_setcfa cell calls vm.cfa() *)
(* and is left to the properties of does.)                                  *)
(***************************************************************************)
IsCall(cell) == cell.f \in {"_defineCFA", "runDoes"}

\* the cells executed from the j-th on follow each other, rs being the
\* return addresses of the calls entered and not left
RECURSIVE Sequenced(_, _)
Sequenced(j, rs) ==
    IF j >= Len(trace) THEN TRUE
    ELSE LET k == trace[j]
             cell == At(vm.x, k)
         IN  CASE IsCall(cell) ->
                    /\ trace[j + 1] = cell.n
                    /\ Sequenced(j + 1, Append(rs, k + 1))
               [] cell = LibFn("exit") /\ rs # <<>> ->
                    /\ trace[j + 1] = rs[Len(rs)]
                    /\ Sequenced(j + 1, SubSeq(rs, 1, Len(rs) - 1))
               [] cell = LibFn("exit") /\ rs = <<>> -> FALSE
               [] OTHER ->
                    /\ trace[j + 1] = k + 1
                    /\ Sequenced(j + 1, rs)

\* the addresses executed in the body of the word invoked from top level
RECURSIVE CallerCells(_, _)
CallerCells(j, depth) ==
    IF j > Len(trace) THEN <<>>
    ELSE LET cell == At(vm.x, trace[j])
             d == CASE IsCall(cell) -> depth + 1
                    [] cell = LibFn("exit") -> depth - 1
                    [] OTHER -> depth
         IN  (IF depth = 0 THEN <<trace[j]>> ELSE <<>>) \o CallerCells(j + 1, d)

NoDoesSetCfa == \A j \in 1..Len(trace) : At(vm.x, trace[j]).f # "_does_setcfa"

\* a call cell of a colon-defined word has been executed
NestedCall == \E j \in 1..Len(trace) : At(vm.x, trace[j]).f = "_defineCFA"

PreTop == pre.vm.s[Len(pre.vm.s)]

C10_RedefinitionShadows ==
    (/\ Ran
     /\ last.w \in {"define", "create"}
     /\ PreFn = LibFn(last.w)
     /\ pre.vm.s # <<>>
     /\ PreTop.t = "str"
     /\ PreTop.s \in DOMAIN pre.prototype)
    => /\ thrown = ""
       /\ prototype[PreTop.s].fn # pre.prototype[PreTop.s].fn
       /\ SubSeq(vm.x, 1, Len(pre.vm.x)) = pre.vm.x

(***************************************************************************)
(* C11: create or define invoked from top level with a name that is not a  *)
(* string (or with nothing on the Data Stack), or with the empty string,    *)
(* fails with the error of an invalid name (the TypeError of staticDefine)  *)
(* and adds no entry to the Dictionary.                                     *)
(***************************************************************************)
\* the last call from top level ran create or define
Registers == /\ Ran
             /\ last.w \in {"create", "define"}
             /\ PreFn = LibFn(last.w)

\* the name create pops: the top of the Data Stack, undefined on an empty one
PreName == IF pre.vm.s = <<>> THEN Undef ELSE PreTop

C11_InvalidWordName ==
    (Registers /\ (PreName.t # "str" \/ PreName.s = ""))
    => /\ thrown = "TypeError"
       /\ DOMAIN prototype = DOMAIN pre.prototype

(***************************************************************************)
(* C12: when create or define fails because the name on top of the Data    *)
(* Stack is not a valid name, the Data Stack and Code Space are as they     *)
(* were before the operation: the name is still on the stack.               *)
(***************************************************************************)
C12_FailFast ==
    (Registers /\ pre.vm.s # <<>> /\ PreName.t # "str" /\ thrown # "")
    => /\ vm.s = pre.vm.s
       /\ vm.x = pre.vm.x

(***************************************************************************)
(* C13: exit executed from top level while the Return Stack is empty (no    *)
(* invocation is running, so it is not the exit that ends the outermost     *)
(* one) is reported as ReturnStackUnderflow.                                *)
(***************************************************************************)
C13_ReturnStackUnderflow ==
    (Ran /\ last.w = "exit" /\ PreFn = LibFn("exit") /\ pre.vm.r = <<>>)
    => thrown = "ReturnStackUnderflow"

(***************************************************************************)
(* C14: invoking a colon-defined word by name starts execution at that      *)
(* word's own start address.  The getter leaves the instruction pointer at  *)
(* the start address of the word's _defineCFA, and the first cell executed  *)
(* is the one at that address; the start address of a _defineCFA is the     *)
(* Code Space length at the step that defined the word, and no later step   *)
(* (a definition, a compiled cell) changes it.                              *)
(***************************************************************************)
\* the words bound to a colon definition in dictionary p
ColonWords(p) == {k \in DOMAIN p : p[k].fn.f = "_defineCFA"}

StartsAtOwn ==
    ColonCall
    => /\ (trace = <<>> /\ thrown = "") => vm.i = PreFn.n
       /\ trace # <<>> => trace[1] = PreFn.n

DefinedAtHere ==
    \A k \in ColonWords(prototype') :
        IF k \in ColonWords(prototype)
        THEN prototype'[k].fn = prototype[k].fn
        ELSE /\ prototype'[k].fn.n = Len(vm.x)
             /\ prototype'[k].fn.s = k

CreatedWords(p) ==
    {k \in DOMAIN p : /\ p[k].fn.f \in {"const", "runDoes"}
                      /\ p[k].fn.a[1].t = "num"}

\* the address of the data cell of created word k
DataCell(p, k) == p[k].fn.a[1].n

C15_ExclusiveDataCell ==
    \A k1, k2 \in CreatedWords(prototype) :
        k1 # k2 => DataCell(prototype, k1) # DataCell(prototype, k2)

(***************************************************************************)
(* C16: bulk import registers a word for every entry of the mapping.  When  *)
(* import has returned, every name of the mapping is in the Dictionary: a   *)
(* callable entry is bound to that callable (a native word of its arity),   *)
(* and any other entry, whatever its value, to a zero-arity word that       *)
(* pushes the value.                                                        *)
(***************************************************************************)
C16_BulkImport ==
    (last.k = "import" /\ thrown = "")
    => \A j \in 1..Len(last.v) :
          LET e == last.v[j]
          IN  /\ e.k \in DOMAIN prototype
              /\ IF IsFn(e.value)
                 THEN prototype[e.k].fn = e.value
                 ELSE /\ FnLength(prototype[e.k].fn) = 0
                      /\ runNative(Machine, e.k).vm.s = Append(vm.s, e.value)

(***************************************************************************)
(* C17: gather/spread inverse.  For every N from 0 to the depth of the Data *)
(* Stack, pushing N and executing gather leaves the values below the top N  *)
(* and one array of the top N in their order, and executing spread then     *)
(* leaves the Data Stack as it was before N was pushed.  And spread,        *)
(* invoked from top level on an array, pushes its elements in order.        *)
(***************************************************************************)
\* the Data Stack after N is pushed and gather is executed
Gathered(N) == runNative(Push(TopLevel, Num(N)), "gather")

C17_GatherSpreadInverse ==
    /\ \A N \in 0..Len(vm.s) :
          LET n == Len(vm.s)
              sp == runNative(Gathered(N), "spread")
          IN  /\ Gathered(N).vm.s
                    = Append(SubSeq(vm.s, 1, n - N), Arr(SubSeq(vm.s, n - N + 1, n)))
              /\ sp.vm.s = vm.s
              /\ sp.thrown = ""
    /\ (Ran /\ last.w = "spread" /\ pre.vm.s # <<>> /\ PreTop.t = "arr")
       => /\ vm.s = SubSeq(pre.vm.s, 1, Len(pre.vm.s) - 1) \o PreTop.a
          /\ thrown = ""

\* spread has been invoked from top level on the array gather made of two
\* values
C17_Witness ==
    /\ Ran /\ last.w = "spread" /\ thrown = ""
    /\ pre.vm.s # <<>> /\ PreTop.t = "arr" /\ Len(PreTop.a) = 2
    /\ PreTop.a[1] # PreTop.a[2]
    /\ vm.s = SubSeq(pre.vm.s, 1, Len(pre.vm.s) - 1) \o PreTop.a

(***************************************************************************)
(* C18: swap involution.  On a Data Stack of at least two values, swap      *)
(* exchanges the top two values and leaves the rest unchanged, and swap     *)
(* executed twice leaves the Data Stack as it was.                          *)
(***************************************************************************)
\* q with its last two elements exchanged
Exchanged(q) == SubSeq(q, 1, Len(q) - 2) \o <<q[Len(q)], q[Len(q) - 1]>>

C18_SwapInvolution ==
    /\ Len(vm.s) >= 2
       => LET once == runNative(TopLevel, "swap")
              twice == runNative(once, "swap")
          IN  /\ once.vm.s = Exchanged(vm.s)
              /\ twice.vm.s = vm.s
              /\ twice.thrown = ""
    /\ (Ran /\ last.w = "swap" /\ Len(pre.vm.s) >= 2)
       => vm.s = Exchanged(pre.vm.s) /\ thrown = ""

\* swap has been invoked from top level on three values, the top two
\* different
C18_Witness ==
    /\ Ran /\ last.w = "swap" /\ thrown = ""
    /\ Len(pre.vm.s) >= 3
    /\ pre.vm.s[Len(pre.vm.s)] # pre.vm.s[Len(pre.vm.s) - 1]
    /\ vm.s = Exchanged(pre.vm.s)

(***************************************************************************)
(* C19: pick/pluck consistency.  For every index i smaller than the depth   *)
(* of the Data Stack, the callable pick(i) returns the value at depth i and *)
(* the callable pluck(i) removes and returns the same value, leaving one    *)
(* element fewer with the elements above it moved down by one, in order.    *)
(* As words (the index pushed, then the word run) pick leaves the stack     *)
(* with that value pushed, and pluck leaves the shortened stack with the    *)
(* value pushed (a value that is undefined is not pushed).                  *)
(***************************************************************************)
\* q without the element at depth i from its end (0 = the last)
Without(q, i) == SubSeq(q, 1, Len(q) - i - 1) \o SubSeq(q, Len(q) - i + 1, Len(q))

\* what runNative pushes for a returned value
Pushed(v) == IF v.t = "undef" THEN <<>> ELSE <<v>>

C19_PickPluck ==
    /\ \A i \in 0..Len(vm.s) - 1 :
          LET v == vm.s[Len(vm.s) - i]
              plucked == pluck(TopLevel, Num(i))
          IN  /\ pick(TopLevel, Num(i)) = v
              /\ plucked.ret = v
              /\ plucked.m.vm.s = Without(vm.s, i)
              /\ Len(plucked.m.vm.s) = Len(vm.s) - 1
              /\ runNative(Push(TopLevel, Num(i)), "pick").vm.s = vm.s \o Pushed(v)
              /\ runNative(Push(TopLevel, Num(i)), "pluck").vm.s
                    = Without(vm.s, i) \o Pushed(v)
    /\ (/\ Ran /\ last.w = "pluck" /\ PreFn = LibFn("pluck")
        /\ pre.vm.s # <<>> /\ PreTop.t = "num"
        /\ PreTop.n >= 0 /\ PreTop.n < Len(pre.vm.s) - 1)
       => LET below == SubSeq(pre.vm.s, 1, Len(pre.vm.s) - 1)
          IN  vm.s = Without(below, PreTop.n) \o Pushed(below[Len(below) - PreTop.n])

\* pluck has been invoked from top level with index 1 on three values
C19_Witness ==
    /\ Ran /\ last.w = "pluck" /\ thrown = ""
    /\ Len(pre.vm.s) = 4 /\ PreTop = Num(1)
    /\ vm.s = <<pre.vm.s[1], pre.vm.s[3], pre.vm.s[2]>>
    /\ pre.vm.s[2] # pre.vm.s[3]

(***************************************************************************)
(* C20: termination.  When a colon-defined or does-bound word, invoked from *)
(* top level in interpret mode (every body then ends with an exit cell),    *)
(* has halted without an exception, its cells have been executed, none of   *)
(* them at or beyond the end of Code Space, and the instruction pointer is  *)
(* undefined.                                                               *)
(***************************************************************************)
C20_Termination ==
    (/\ Returned /\ Ran /\ thrown = ""
     /\ pre.vm.compiling.t = "undef"
     /\ IsCall(PreFn))
    => /\ trace # <<>>
       /\ \A j \in 1..Len(trace) : trace[j] >= 0 /\ trace[j] < Len(vm.x)
       /\ vm.i = undefined

(***************************************************************************)
(* C21: while the compiling flag is set, a literal token appends one cell   *)
(* (its values) to the end of Code Space, a reference to a non-immediate    *)
(* word appends one cell calling the word, and both leave the Data Stack,   *)
(* the Return Stack and the instruction pointer unchanged; while the flag   *)
(* is not set, a literal token pushes its values (the first on top) on the  *)
(* Data Stack and leaves Code Space unchanged.                              *)
(***************************************************************************)
\* the last call from top level was made while the compiling flag was set
Compiling == pre.vm.compiling.t # "undef"

\* the Data Stack, the Return Stack and the instruction pointer are as they
\* were at the last call from top level
StacksUnchanged == /\ vm.s = pre.vm.s
                   /\ vm.r = pre.vm.r
                   /\ vm.i = pre.vm.i

C21_CompileFrame ==
    /\ (last.k = "lit" /\ Compiling)
       => /\ vm.x = Append(pre.vm.x, Arr(last.v))
          /\ StacksUnchanged
    /\ (last.k = "word" /\ Compiling /\ PreFn \notin pre.isImmediate)
       => /\ Len(vm.x) = Len(pre.vm.x) + 1
          /\ SubSeq(vm.x, 1, Len(pre.vm.x)) = pre.vm.x
          /\ vm.x[Len(vm.x)] \in {RunNativeFn(last.w), PreFn}
          /\ StacksUnchanged
    /\ (last.k = "lit" /\ ~Compiling)
       => /\ vm.x = pre.vm.x
          /\ vm.s = pre.vm.s \o Reverse(last.v)
          /\ vm.r = pre.vm.r /\ vm.i = pre.vm.i

\* a literal of two values has been compiled with values on the Data Stack
C21_Witness ==
    /\ last.k = "lit" /\ Compiling
    /\ Len(last.v) = 2
    /\ pre.vm.s # <<>>
    /\ vm.x = Append(pre.vm.x, Arr(last.v))
    /\ vm.s = pre.vm.s

(***************************************************************************)
(* C22: does splits the factory body.  When the invocation of a word        *)
(* executes the attachment cell (_does_setcfa) compiled by does at address  *)
(* d, the cell executed next is the exit at d + 1, and no cell of the       *)
(* shared behaviour (compiled from d + 2 on) is executed by that            *)
(* invocation: the behaviour runs only when a created word is invoked.      *)
(***************************************************************************)
\* the positions of trace at which an attachment cell was executed
DoesCells == {j \in 1..Len(trace) : At(vm.x, trace[j]).f = "_does_setcfa"}

C22_DoesSplitsBody ==
    \A j \in DoesCells :
        LET d == trace[j]
        IN  /\ j < Len(trace)
               => /\ trace[j + 1] = d + 1
                  /\ At(vm.x, d + 1) = LibFn("exit")
            /\ \A j2 \in 1..Len(trace) : trace[j2] < At(vm.x, d).n

(***************************************************************************)
(* C23: the attachment step of does changes the behaviour of no Dictionary  *)
(* entry but the word registered by the create executed earlier in the same *)
(* invocation: every word that was in the Dictionary when the invocation    *)
(* was made from top level is bound as it was.                              *)
(***************************************************************************)
C23_AttachesOnlyCreated ==
    last.k = "word"
    => \A k \in DOMAIN pre.prototype : prototype[k].fn = pre.prototype[k].fn

(***************************************************************************)
(* C24: a word registered by create with no does behaviour attached puts    *)
(* its data cell address on the Data Stack whenever it is invoked: when it  *)
(* is invoked from top level in interpret mode, and when the loop executes  *)
(* the cell compiled for it inside a colon definition.                      *)
(***************************************************************************)
\* fn is the constant function of a created word
IsCreatedFn(fn) == fn.f = "const" /\ fn.a[1].t = "num"

\* invoked in interpret mode, the created word has pushed its address
PushesWhenInterpreted ==
    (Ran /\ ~Compiling /\ IsCreatedFn(PreFn) /\ trace = <<>>)
    => vm.s = Append(pre.vm.s, PreFn.a[1])

\* executed as a compiled cell, the created word pushes its address
PushesWhenExecuted ==
    (loops > 0 /\ IsCreatedFn(At(vm.x, vm.i)))
    => vm'.s = Append(vm.s, At(vm.x, vm.i).a[1])

\* C24: a created word pushes its data cell address however it is invoked
C24_CreatedWordPushesCell ==
    [] PushesWhenInterpreted /\ [][PushesWhenExecuted]_vars

(***************************************************************************)
(* C25: single interpreter loop.  At most one while loop of runitl is       *)
(* active at any time, and a call cell of a colon-defined or does-bound     *)
(* word executed by that loop only saves the instruction pointer (the       *)
(* address after the call cell) on the Return Stack and redirects it to the *)
(* callee's start address: the loop that executed the cell stays the only   *)
(* one.                                                                     *)
(***************************************************************************)
C25_SingleLoop ==
    /\ loops <= 1
    /\ (loops > 0 /\ trace # <<>> /\ IsCall(LastCell))
       => /\ loops = 1
          /\ vm.i = LastCell.n
          /\ vm.r # <<>>
          /\ vm.r[Len(vm.r)] = trace[Len(trace)] + 1

\* the loop has just executed the call cell of a does-bound word
C25_Witness ==
    /\ loops = 1
    /\ trace # <<>>
    /\ LastCell.f = "runDoes"
    /\ vm.i = LastCell.n
    /\ Len(vm.r) = 2

\* calls entered and not left among the first j cells executed
RECURSIVE Nesting(_)
Nesting(j) ==
    IF j = 0 THEN 0
    ELSE LET cell == At(vm.x, trace[j])
         IN  Nesting(j - 1) + (CASE IsCall(cell) -> 1
                                 [] cell = LibFn("exit") -> -1
                                 [] OTHER -> 0)

\* the loop of a top-level invocation is running
Executing == loops > 0 /\ NoDoesSetCfa

CoreFn(k) == Val("fn", 0, k, <<>>, "corelib")
\* function popLiterals
PopLiterals == Val("fn", 0, "", <<>>, "popLiterals")

\* Function.length of the functions of corelib
CoreLength(fn) ==
    IF fn.f = "corelib"
    THEN CASE fn.s \in {"swap", "add"} -> 2
           [] fn.s \in {"create", "data", "define", "load", "pick", "drop",
                        "print"} -> 1
           [] OTHER -> 0
    ELSE 0

\* ConcatenativeFunction.define(k, what) of part_001
define_001(m, k, what) ==
    IF k.t # "str" THEN Throw(m, "TypeError")
    ELSE IF k.s \in DOMAIN m.prototype THEN Throw(m, "TypeError")
    ELSE [m EXCEPT !.prototype = @ @@ (k.s :> [fn |-> IF IsFn(what) THEN what
                                                     ELSE ConstFn(what),
                                               pure |-> FALSE,
                                               what |-> what]),
                   !.vm.cfa = k.s]

\* runitl(): the while loop runs while vm.i is not undefined
runitl_001(m) == IF m.vm.i = undefined THEN m ELSE [m EXCEPT !.loops = @ + 1]

\* runDoes of part_001: vm.s.push(data); vm.i = start; runitl()
runDoes_001(m, fn) ==
    runitl_001([m EXCEPT !.vm.s = Append(@, fn.a[1]), !.vm.i = fn.n])

\* console.log("CAT>", a)
print_001(m, a) == [m EXCEPT !.stdout = Append(@, "CAT> " \o ToStr(a))]

\* The words of corelib, called with args
corelib(m, k, args) ==
    LET a == Arg(args, 1)
        b == Arg(args, 2)
    IN  CASE k = "create" -> Ret(define_001(m, a, Num(Len(m.vm.x))), Undef)
          [] k = "does" ->
                LET fn == DoesSetCfa(Len(m.vm.x) + 2)
                IN  Ret([m EXCEPT !.vm.compiling = fn,
                                  !.vm.x = @ \o <<fn, CoreFn("exit")>>], Undef)
          [] k = "data" -> Ret([m EXCEPT !.vm.x = Append(@, a)], Undef)
          [] k = "define" ->
                LET fn == DefineCFA(a.s, Len(m.vm.x))
                IN  Ret(define_001([m EXCEPT !.vm.compiling = fn], a, fn), Undef)
          [] k = "exit" -> Ret(exit(m), Undef)
          [] k = "return" -> Ret([m EXCEPT !.vm.x = Append(@, CoreFn("exit")),
                                           !.vm.compiling = Undef], Undef)
          [] k = "immediate" -> Ret(immediate(m), Undef)
          [] k = "here" -> Ret(m, Num(Len(m.vm.x)))
          [] k = "load" -> Ret(m, load(m.vm.x, a))
          [] k = "swap" -> Ret(swap(m, a, b), Undef)
          [] k = "pick" -> Ret(m, pick(m, a))
          [] k = "add" -> Ret(m, JsAdd(a, b))
          [] k = "print" -> Ret(print_001(m, a), Undef)
          [] OTHER -> Ret(m, Undef)   \* drop(a) {}

\* fn.apply(null, args) for the functions a word's fn can hold in part_001
apply_001(m, fn, args) ==
    CASE fn.f = "corelib" -> corelib(m, fn.s, args)
      [] fn.f = "const" -> Ret(m, fn.a[1])
      [] fn.f = "_defineCFA" -> Ret(runitl(m, fn.n), Undef)
      [] OTHER -> Ret(runDoes_001(m, fn), Undef)

\* runNative of word k in part_001
runNative_001(m, k) ==
    LET fn == m.prototype[k].fn
        sp == Splice(m.vm.s, Len(m.vm.s) - CoreLength(fn), CoreLength(fn))
        res == apply_001([m EXCEPT !.vm.s = sp.rest], fn, sp.removed)
    IN  IF res.m.thrown # "" THEN res.m
        ELSE IF res.ret.t # "undef" THEN Push(res.m, res.ret)
        ELSE res.m

(***************************************************************************)
(* The function does compiles: data = vm.cfa(), then vm.cfa = runDoes.      *)
(* When vm.cfa() is a runDoes, it runs a loop of its own before it returns  *)
(* (undefined): the assignment waits in vm.after.                           *)
(***************************************************************************)
setcfa_001(m, fn) ==
    LET res == apply_001(m, m.prototype[m.vm.cfa].fn, <<>>)
    IN  IF res.m.thrown # "" THEN res.m
        ELSE IF res.m.loops > m.loops
             THEN [res.m EXCEPT !.vm.after = Append(@, fn.n)]
             ELSE setCfa(res.m, RunDoes(res.ret, fn.n))

\* the waiting assignments, made when the loops have ended, the last first
RECURSIVE resume(_)
resume(m) ==
    IF m.vm.after = <<>> THEN m
    ELSE LET n == Len(m.vm.after)
         IN  resume(setCfa([m EXCEPT !.vm.after = SubSeq(@, 1, n - 1)],
                           RunDoes(Undef, m.vm.after[n])))

\* vm.x[vm.i++]() of part_001: a cell that is not a function cannot be called
callCell_001(m, cell) ==
    CASE ~IsFn(cell) -> Throw(m, "TypeError")
      [] cell.f = "popLiterals" ->
            pushCell([m EXCEPT !.vm.i = @ + 1], m.vm.i, At(m.vm.x, m.vm.i))
      [] cell.f = "runNative" -> runNative_001(m, cell.s)
      [] cell.f = "_does_setcfa" -> setcfa_001(m, cell)
      [] OTHER -> apply_001(m, cell, <<>>).m

\* One pass of the while loop of runitl(), and the loop test after it
loopBody_001(m) ==
    LET cell == At(m.vm.x, m.vm.i)
        m2 == callCell_001([m EXCEPT !.vm.i = @ + 1], cell)
    IN  IF m2.thrown # "" THEN [m2 EXCEPT !.loops = 0, !.vm.after = <<>>]
        ELSE IF m2.vm.i = undefined THEN resume([m2 EXCEPT !.loops = 0])
        ELSE m2

\* The getter of word k of part_001
getter_001(m, k) ==
    LET e == m.prototype[k]
    IN  IF m.vm.compiling.t # "undef" /\ e.what \notin m.isImmediate
        THEN [m EXCEPT !.vm.x = Append(@, RunNativeFn(k))]
        ELSE unwind(runNative_001(m, k))

\* compileLiterals
compileLiterals(m, args) ==
    IF args # <<>> THEN [m EXCEPT !.vm.x = @ \o <<PopLiterals, Arr(args)>>]
    ELSE m

\* C(...args) of part_001; C() runs the loop
C_001(m, args) ==
    IF m.vm.compiling.t # "undef" THEN compileLiterals(m, args)
    ELSE IF args = <<>> THEN runitl_001(m)
    ELSE [m EXCEPT !.vm.s = @ \o Reverse(args)]

\* ConcatenativeFunction.import(lib) of part_001
RECURSIVE import_001(_, _)
import_001(m, lib) ==
    IF lib = <<>> \/ m.thrown # "" THEN m
    ELSE import_001(IF Truthy(Head(lib).value)
                    THEN define_001(m, Str(Head(lib).k), Head(lib).value)
                    ELSE m,
                    Tail(lib))

CoreNames == <<"create", "does", "data", "define", "exit", "return",
               "immediate", "here", "load", "swap", "pick", "drop", "add",
               "print">>

\* The machine when part_001 has imported corelib
Boot_001 ==
    import_001(
        [vm |-> [s |-> <<>>, r |-> <<>>, x |-> <<>>, i |-> undefined,
                 compiling |-> Undef, cfa |-> "", after |-> <<>>],
         prototype |-> <<>>,
         isImmediate |-> {CoreFn("does"), CoreFn("return"), CoreFn("immediate")},
         loops |-> 0,
         thrown |-> "",
         stdout |-> <<>>],
        [j \in 1..Len(CoreNames) |-> [k |-> CoreNames[j],
                                      value |-> CoreFn(CoreNames[j])]])

\* dup, printer and hello of part_001
Prog1Printer ==
    <<Lit(<<Str("d")>>), W("define"), Lit(<<Num(0)>>), W("pick"), W("return"),
      Lit(<<Str("p")>>), W("define"), W("d"), W("create"), W("data"),
      W("does"), W("load"), W("print"), W("return"),
      Lit(<<Str("h")>>), W("p"), W("h"), W("h")>>

\* a word made by a defining word, called from the body of a colon word
Prog1Caller ==
    <<Lit(<<Str("p")>>), W("define"), W("create"), W("data"),
      W("does"), W("load"), W("print"), W("return"),
      Lit(<<Str("h"), Str("h")>>), W("p"),
      Lit(<<Str("u")>>), W("define"), W("h"), Lit(<<Num(1)>>), W("print"),
      W("return"), W("u"), Lit(<<>>)>>

\* test and mat, as in the comment of part_001
Prog1Colon ==
    <<Lit(<<Str("t")>>), W("define"), Lit(<<Num(1), Num(2)>>), W("add"),
      W("print"), W("return"),
      Lit(<<Str("m")>>), W("define"), W("t"), Lit(<<Str("k")>>), W("print"),
      W("return"), W("m"), Lit(<<>>), W("t")>>

\* a word whose create is given no name, then C()
Prog1Abort ==
    <<Lit(<<Str("e")>>), W("define"), W("create"), W("here"), W("return"),
      W("e"), Lit(<<>>), Lit(<<Num(1)>>), W("print")>>

Programs_001 == {Prog1Printer, Prog1Caller, Prog1Colon, Prog1Abort}

\* C(v1, ..., vn) and C() of part_001
Literal_001 == /\ loops = 0
               /\ \E t \in Tokens :
                     /\ t.k = "lit"
                     /\ Takes(t)
                     /\ Called(t)
                     /\ Becomes(C_001(TopLevel, t.v))

\* C.w of part_001
Getter_001 == /\ loops = 0
              /\ \E t \in Tokens :
                    /\ t.k = "word"
                    /\ t.w \in DOMAIN prototype
                    /\ Takes(t)
                    /\ Called(t)
                    /\ Becomes(getter_001(TopLevel, t.w))

\* One pass of the while loop of runitl() of part_001
Loop_001 == /\ loops > 0
            /\ Becomes(loopBody_001(Machine))
            /\ trace' = Append(trace, vm.i)
            /\ UNCHANGED <<prog, free, last, pre>>

Init_001 == /\ vm = Boot_001.vm
            /\ prototype = Boot_001.prototype
            /\ isImmediate = Boot_001.isImmediate
            /\ loops = 0
            /\ thrown = ""
            /\ stdout = <<>>
            /\ prog \in Programs_001
            /\ free = MaxFree
            /\ last = NoToken
            /\ pre = Snapshot
            /\ trace = <<>>
            /\ x0 = <<>>

Next_001 == Literal_001 \/ Getter_001 \/ Loop_001

Spec_001 == Init_001 /\ [][Next_001]_vars

\* the cells executed that were calls of a word bound by does before the
\* call from top level was made
DoesCallCells ==
    {j \in 1..Len(trace) :
        LET c == At(vm.x, trace[j])
        IN  /\ c.f = "runNative"
            /\ c.s \in DOMAIN pre.prototype
            /\ pre.prototype[c.s].fn.f = "runDoes"}

\* a colon-defined word was invoked from top level, in interpret mode, with
\* the Return Stack empty, and has returned without an exception
ColonReturned ==
    /\ Returned /\ thrown = ""
    /\ last.k = "word"
    /\ pre.vm.compiling.t = "undef"
    /\ PreFn.f = "_defineCFA"
    /\ pre.vm.r = <<>>

(***************************************************************************)
(* C27: in the variant of part_001, when a does-bound created word is       *)
(* called from the body of a colon-defined word, the shared behaviour runs  *)
(* (the next cell executed is at its start address) and execution then      *)
(* resumes at the caller's next cell: when the colon-defined word has       *)
(* returned, the cell after the call cell has been executed.                *)
(***************************************************************************)
C27_DoesCallResumes ==
    ColonReturned
    => \A j \in DoesCallCells :
          /\ j < Len(trace)
          /\ trace[j + 1] = pre.prototype[At(vm.x, trace[j]).s].fn.n
          /\ \E j2 \in (j + 1)..Len(trace) : trace[j2] = trace[j] + 1

\* the words whose fn runs a body of Code Space: colon-defined and does-bound
BodyWords == {k \in DOMAIN prototype : prototype[k].fn.f \in {"_defineCFA", "runDoes"}}

\* the body that starts at address start has an exit cell
EndsInExit(start) ==
    /\ start >= 0
    /\ \E e \in start..(Len(vm.x) - 1) : At(vm.x, e) = LibFn("exit")

(***************************************************************************)
(* C28: definition bracketing.  define, run from top level, sets the        *)
(* compiling flag (to the new word's _defineCFA); does leaves it set;       *)
(* return appends exactly one exit cell and clears it.  Whenever the flag   *)
(* is clear, the body of every colon-defined or does-bound word is a run of *)
(* Code Space cells from its start address to an exit cell.                 *)
(***************************************************************************)
C28_DefinitionBracketing ==
    /\ (Ran /\ PreFn = LibFn("define") /\ thrown = "")
       => /\ vm.compiling.f = "_defineCFA"
          /\ vm.compiling = prototype[vm.compiling.s].fn
    /\ (Ran /\ PreFn = LibFn("does") /\ thrown = "")
       => vm.compiling.t # "undef"
    /\ (Ran /\ PreFn = LibFn("return"))
       => /\ vm.x = Append(pre.vm.x, LibFn("exit"))
          /\ vm.compiling = Undef
          /\ thrown = ""
    /\ vm.compiling.t = "undef"
       => \A k \in BodyWords : EndsInExit(prototype[k].fn.n)

\* return has closed the definition of a word whose body holds a does and
\* the cells after it
C28_Witness ==
    /\ Ran /\ PreFn = LibFn("return")
    /\ pre.vm.compiling.f = "_does_setcfa"
    /\ vm.compiling = Undef
    /\ vm.x = Append(pre.vm.x, LibFn("exit"))
    /\ \E k \in BodyWords : prototype[k].fn.n = Len(pre.vm.x) - 2

=============================================================================
